---- MODULE Spec2Model ----
(***************************************************************************)
(* Model of the retail-orders ETL pipeline: etl/transform.py (star-schema  *)
(* build) and etl/load.py (bulk load into the database).                   *)
(*                                                                         *)
(* A DataFrame is a sequence of records; the field idx is the row's index  *)
(* label (pandas keeps it through dropna / drop_duplicates / sort_values   *)
(* until reset_index).  A Parquet file or a database table is a record     *)
(* [exists, rows]; rows carry no idx (to_parquet(index=False),             *)
(* to_sql(index=False)).                                                   *)
(***************************************************************************)
EXTENDS Integers, Sequences, FiniteSets, TLC

\* ---------------------------------------------------------------- bounds
MaxRows == 2
MaxLoadCustomers == 1

\* ---------------------------------------------------------------- values
\* pandas' missing marker (Int64 <NA> in CustomerID, NaN in a joined key)
NA == 0

CustomerIDs == {17850, 13047}
Countries == {"United Kingdom", "France"}
StockCodes == {"85123A", "71053"}
Descriptions == {"HEART T-LIGHT HOLDER", "WHITE METAL LANTERN"}
InvoiceNos == {"536365"}
Quantities == {6}
UnitPrices == {255}
\* a timestamp is <<day, time of day>>
Days == {1, 2}
TimesOfDay == {0, 1}
Timestamps == Days \X TimesOfDay

\* The code compares CustomerID, StockCode, Country and Description values for
\* equality only, so renaming the values of one of these columns renames the
\* output and nothing else.  Of the staged tables that differ by such a
\* renaming one is kept: the one whose values first appear in the order of
\* ValueOrder (null CustomerIDs are free).  InvoiceDate is ordered by the code
\* and is not restricted.
ValueOrder ==
    [CustomerID  |-> <<17850, 13047>>,
     StockCode   |-> <<"85123A", "71053">>,
     Country     |-> <<"United Kingdom", "France">>,
     Description |-> <<"HEART T-LIGHT HOLDER", "WHITE METAL LANTERN">>]

StagedRows ==
    [InvoiceNo : InvoiceNos, StockCode : StockCodes, Description : Descriptions,
     Quantity : Quantities, InvoiceDate : Timestamps, UnitPrice : UnitPrices,
     CustomerID : CustomerIDs \cup {NA}, Country : Countries]

SeqsUpTo(S, n) == UNION {[1..k -> S] : k \in 0..n}

StagedTables == SeqsUpTo(StagedRows, MaxRows)

\* ------------------------------------------------------- pandas helpers
\* Series.dt.normalize(): drop the time of day
normalize(ts) == <<ts[1], 0>>

DateLT(a, b) == a[1] < b[1] \/ (a[1] = b[1] /\ a[2] < b[2])

\* rows of df at the positions in keep, in order (boolean-mask selection)
FilterPos(df, keep) ==
    LET F[i \in 0..Len(df)] ==
            IF i = 0 THEN <<>>
            ELSE IF i \in keep THEN Append(F[i - 1], df[i]) ELSE F[i - 1]
    IN  F[Len(df)]

\* DataFrame.drop_duplicates(subset): keep the first row of each key
drop_duplicates(df, subset) ==
    FilterPos(df, {i \in 1..Len(df) : \A j \in 1..(i - 1) : df[j][subset] # df[i][subset]})

\* DataFrame.dropna(subset)
dropna(df, subset) == FilterPos(df, {i \in 1..Len(df) : df[i][subset] # NA})

\* Series.sort_values() on a series of distinct dates, ascending
sort_values(ser) ==
    [i \in 1..Len(ser) |->
        CHOOSE r \in {ser[k] : k \in 1..Len(ser)} :
            Cardinality({k \in 1..Len(ser) : DateLT(ser[k].invoice_date, r.invoice_date)}) = i - 1]

\* DataFrame.reset_index(drop=True): index labels become 0..n-1
reset_index(df) == [i \in 1..Len(df) |-> [df[i] EXCEPT !.idx = i - 1]]

\* pd.read_parquet: rows of the file under a fresh RangeIndex
load_staging(file) ==
    [i \in 1..Len(file) |->
        [idx |-> i - 1,
         InvoiceNo |-> file[i].InvoiceNo, StockCode |-> file[i].StockCode,
         Description |-> file[i].Description, Quantity |-> file[i].Quantity,
         InvoiceDate |-> file[i].InvoiceDate, UnitPrice |-> file[i].UnitPrice,
         CustomerID |-> file[i].CustomerID, Country |-> file[i].Country]]

\* ------------------------------------------------------------ dimensions
\* Fault variant: create_dim_customers without dropna(subset=["CustomerID"])
create_dim_customers_nodropna(df) ==
    LET sel == [i \in 1..Len(df) |->
                  [idx |-> df[i].idx, CustomerID |-> df[i].CustomerID, Country |-> df[i].Country]]
        dim == reset_index(drop_duplicates(sel, "CustomerID"))
    IN  [i \in 1..Len(dim) |->
            [idx |-> dim[i].idx, CustomerID |-> dim[i].CustomerID,
             Country |-> dim[i].Country, customer_key |-> dim[i].idx + 1]]

\* Fault variant: create_dim_customers without reset_index(drop=True)
create_dim_customers_noreset(df) ==
    LET sel == [i \in 1..Len(df) |->
                  [idx |-> df[i].idx, CustomerID |-> df[i].CustomerID, Country |-> df[i].Country]]
        dim == drop_duplicates(dropna(sel, "CustomerID"), "CustomerID")
    IN  [i \in 1..Len(dim) |->
            [idx |-> dim[i].idx, CustomerID |-> dim[i].CustomerID,
             Country |-> dim[i].Country, customer_key |-> dim[i].idx + 1]]

create_dim_customers(df) ==
    LET sel == [i \in 1..Len(df) |->
                  [idx |-> df[i].idx, CustomerID |-> df[i].CustomerID, Country |-> df[i].Country]]
        dim == reset_index(
                  drop_duplicates(dropna(sel, "CustomerID"), "CustomerID"))
    IN  [i \in 1..Len(dim) |->
            [idx |-> dim[i].idx, CustomerID |-> dim[i].CustomerID,
             Country |-> dim[i].Country, customer_key |-> dim[i].idx + 1]]

create_dim_products(df) ==
    LET sel == [i \in 1..Len(df) |->
                  [idx |-> df[i].idx, StockCode |-> df[i].StockCode,
                   Description |-> df[i].Description]]
        dim == reset_index(drop_duplicates(sel, "StockCode"))
    IN  [i \in 1..Len(dim) |->
            [idx |-> dim[i].idx, StockCode |-> dim[i].StockCode,
             Description |-> dim[i].Description, product_key |-> dim[i].idx + 1]]

\* The series keeps the staged rows' index labels through drop_duplicates and
\* sort_values; DataFrame({"invoice_date": dates}) inherits them, and date_key
\* is computed from that index.  (year, month, day, weekday and month_name are
\* functions of invoice_date alone and are not carried.)
create_dim_date(df) ==
    LET ser   == [i \in 1..Len(df) |->
                    [idx |-> df[i].idx, invoice_date |-> normalize(df[i].InvoiceDate)]]
        dates == sort_values(drop_duplicates(ser, "invoice_date"))
    IN  [i \in 1..Len(dates) |->
            [idx |-> dates[i].idx, invoice_date |-> dates[i].invoice_date,
             date_key |-> dates[i].idx + 1]]

\* ------------------------------------------------------------------ fact
\* DataFrame.merge(right, how, on): for every left row, one output row per
\* matching right row (null keys match null keys); a left row without a match
\* survives with the right columns missing when how = "left" and is dropped
\* when how = "inner".
merge(left, right, how, left_on, right_on, col) ==
    LET rowsFor(l) ==
            LET m == FilterPos(right, {i \in 1..Len(right) : right[i][right_on] = l[left_on]})
            IN  IF m = <<>>
                THEN IF how = "left" THEN <<[l EXCEPT ![col] = NA]>> ELSE <<>>
                ELSE [i \in 1..Len(m) |-> [l EXCEPT ![col] = m[i][col]]]
        E[i \in 0..Len(left)] ==
            IF i = 0 THEN <<>> ELSE E[i - 1] \o rowsFor(left[i])
    IN  E[Len(left)]

\* Body of create_fact_orders; how_cust is the how= of the customer merge and
\* date_on the fact column the date merge joins on.  Columns of the staged
\* frame that the final selection drops (Description, Country) are not carried.
fact_orders_build(df, dim_cust, dim_prod, dim_date, how_cust, date_on) ==
    LET f0 == [i \in 1..Len(df) |->
                 [InvoiceNo |-> df[i].InvoiceNo, StockCode |-> df[i].StockCode,
                  Quantity |-> df[i].Quantity, InvoiceDate |-> df[i].InvoiceDate,
                  UnitPrice |-> df[i].UnitPrice, CustomerID |-> df[i].CustomerID,
                  customer_key |-> NA, product_key |-> NA,
                  invoice_date |-> df[i].InvoiceDate, date_key |-> NA]]
        f1 == merge(f0, dim_cust, how_cust, "CustomerID", "CustomerID", "customer_key")
        f2 == merge(f1, dim_prod, "left", "StockCode", "StockCode", "product_key")
        f3 == [i \in 1..Len(f2) |->
                 [f2[i] EXCEPT !.invoice_date = normalize(f2[i].InvoiceDate)]]
        f4 == merge(f3, dim_date, "left", date_on, "invoice_date", "date_key")
    IN  [i \in 1..Len(f4) |->
            [idx |-> i - 1,
             invoice_date |-> f4[i].invoice_date,
             date_key |-> f4[i].date_key,
             customer_key |-> f4[i].customer_key,
             product_key |-> f4[i].product_key,
             InvoiceNo |-> f4[i].InvoiceNo,
             Quantity |-> f4[i].Quantity,
             UnitPrice |-> f4[i].UnitPrice,
             line_total |-> f4[i].Quantity * f4[i].UnitPrice]]

\* Fault variant: the customer merge with how="inner"
create_fact_orders_inner(df, dim_cust, dim_prod, dim_date) ==
    fact_orders_build(df, dim_cust, dim_prod, dim_date, "inner", "invoice_date")

\* Fault variant: the date merge joins on the raw InvoiceDate timestamp
create_fact_orders_rawdate(df, dim_cust, dim_prod, dim_date) ==
    fact_orders_build(df, dim_cust, dim_prod, dim_date, "left", "InvoiceDate")

create_fact_orders(df, dim_cust, dim_prod, dim_date) ==
    fact_orders_build(df, dim_cust, dim_prod, dim_date, "left", "invoice_date")

\* df.to_parquet(path, index=False): the columns without the index
save_table(df) ==
    [exists |-> TRUE,
     rows |-> [i \in 1..Len(df) |-> [c \in (DOMAIN df[i]) \ {"idx"} |-> df[i][c]]]]

\* ----------------------------------------------------------------- state
VARIABLES
    staged,     \* rows of orders_staging.parquet
    files,      \* the four transformed Parquet files
    db,         \* the four database tables
    lpc,        \* loader: "idle", "loading", "done" or "failed"
    pos,        \* loader: position in the tables mapping (1..4; 5 after the loop)
    error,      \* exception that ended the loader run, or "none"
    dbBefore,   \* history: db when the current loader run started
    loaded,     \* history: tables written by the current loader run
    skipped,    \* history: tables skipped by the current loader run
    attempts,   \* history: to_sql calls per table in the current loader run
    complete    \* history: some loader run has written all four tables

vars == <<staged, files, db, lpc, pos, error, dbBefore, loaded, skipped, attempts, complete>>

\* load.py, main: the tables mapping, in insertion order
tables == <<"dim_customers", "dim_products", "dim_date", "fact_orders">>
TableNames == {tables[i] : i \in 1..Len(tables)}

Absent == [exists |-> FALSE, rows |-> <<>>]

NoAttempts == [t \in TableNames |-> 0]

\* transform.py main(): read the staging file, build the three dimensions and
\* the fact table, write the four files.
TransformOutput(s) ==
    LET df_staging    == load_staging(s)
        dim_customers == create_dim_customers(df_staging)
        dim_products  == create_dim_products(df_staging)
        dim_date      == create_dim_date(df_staging)
        fact_orders   == create_fact_orders(df_staging, dim_customers, dim_products, dim_date)
    IN  [dim_customers |-> save_table(dim_customers),
         dim_products  |-> save_table(dim_products),
         dim_date      |-> save_table(dim_date),
         fact_orders   |-> save_table(fact_orders)]

\* A stage runs to completion before the next one starts; the history of the
\* previous loader run is forgotten when the files change.
ResetLoaderHistory ==
    /\ lpc' = "idle"
    /\ pos' = 0
    /\ error' = "none"
    /\ dbBefore' = db
    /\ loaded' = {}
    /\ skipped' = {}
    /\ attempts' = NoAttempts

TransformMain(s) ==
    /\ lpc # "loading"
    /\ staged' = s
    /\ files' = TransformOutput(s)
    /\ ResetLoaderHistory
    /\ UNCHANGED <<db, complete>>

\* ------------------------------------------- transform on its own (SpecT)
InitCommon ==
    /\ files = [t \in TableNames |-> Absent]
    /\ db = [t \in TableNames |-> Absent]
    /\ lpc = "idle"
    /\ pos = 0
    /\ error = "none"
    /\ dbBefore = [t \in TableNames |-> Absent]
    /\ loaded = {}
    /\ skipped = {}
    /\ attempts = NoAttempts
    /\ complete = FALSE

FirstAppearanceOrdered(s, col) ==
    \A i \in 1..Len(s) :
        \A k \in 2..Len(ValueOrder[col]) :
            s[i][col] = ValueOrder[col][k] =>
                \E j \in 1..(i - 1) : s[j][col] = ValueOrder[col][k - 1]

TransformInputs ==
    {s \in StagedTables : \A col \in DOMAIN ValueOrder : FirstAppearanceOrdered(s, col)}

InitT == staged \in TransformInputs /\ InitCommon

TransformStaged == TransformMain(staged)

NextT == TransformStaged

SpecT == InitT /\ [][NextT]_vars

\* ------------------------------------------------------- loader (Spec)
\* Staged tables fed to the transform between loader runs: the empty table
\* and single line items, a guest order or the order of one of the first
\* MaxLoadCustomers customers, for one product on one day.
PipelineRows ==
    {r \in StagedRows :
        /\ r.Country = "United Kingdom"
        /\ r.StockCode = "85123A"
        /\ r.Description = "HEART T-LIGHT HOLDER"
        /\ r.InvoiceDate = <<1, 1>>
        /\ \/ r.CustomerID = NA
           \/ \E k \in 1..MaxLoadCustomers :
                 k <= Len(ValueOrder.CustomerID) /\ r.CustomerID = ValueOrder.CustomerID[k]}

PipelineInputs == {<<>>} \cup {<<r>> : r \in PipelineRows}

\* load.py, load_parquet_to_sql: chunksize of the batched insert
chunksize == 1000

\* Fault variant: to_sql with if_exists="append"
to_sql_append(old, rows) == [exists |-> TRUE, rows |-> old.rows \o rows]

\* DataFrame.to_sql(if_exists="replace"): drop the table, create it again and
\* insert the rows
to_sql(old, rows) == [exists |-> TRUE, rows |-> rows]

\* What a to_sql that raises may leave behind, depending on the driver and on
\* where it fails: the old table (the drop was rolled back or never ran), no
\* table (dropped, not yet created), or the new table holding the chunks
\* inserted so far.
FailedWrite(old, rows) ==
    {old, Absent}
        \cup {[exists |-> TRUE, rows |-> SubSeq(rows, 1, n * chunksize)] :
                n \in {m \in 0..Len(rows) : m * chunksize <= Len(rows)}}

Init == staged = <<>> /\ InitCommon

\* transform.py run on a new staging file
TransformRun == \E s \in PipelineInputs : TransformMain(s)

\* A transformed file goes missing between the stages.
RemoveFile ==
    \E t \in TableNames :
        /\ lpc # "loading"
        /\ files[t].exists
        /\ files' = [files EXCEPT ![t] = Absent]
        /\ ResetLoaderHistory
        /\ UNCHANGED <<staged, db, complete>>

\* load.py main(), steps 1-3: load_config raises when config.yaml is missing;
\* otherwise the engine is created (lazily) and the loop starts.
LoadMainStart ==
    /\ lpc # "loading"
    /\ dbBefore' = db
    /\ loaded' = {}
    /\ skipped' = {}
    /\ attempts' = NoAttempts
    /\ \/ lpc' = "loading" /\ pos' = 1 /\ error' = "none"
       \/ lpc' = "failed" /\ pos' = 0 /\ error' = "ConfigNotFound"
    /\ UNCHANGED <<staged, files, db, complete>>

\* Fault variant: the loop body without the pq.exists() check; read_parquet
\* raises on a missing file
LoadStep_NoExistsCheck ==
    /\ lpc = "loading"
    /\ pos <= Len(tables)
    /\ LET t == tables[pos]
       IN  IF ~files[t].exists
           THEN /\ lpc' = "failed"
                /\ error' = "ParquetNotFound"
                /\ UNCHANGED <<db, pos, loaded, skipped, attempts>>
           ELSE \/ /\ db' = [db EXCEPT ![t] = to_sql(db[t], files[t].rows)]
                   /\ loaded' = loaded \cup {t}
                   /\ attempts' = [attempts EXCEPT ![t] = @ + 1]
                   /\ pos' = pos + 1
                   /\ UNCHANGED <<lpc, error, skipped>>
                \/ /\ \E out \in FailedWrite(db[t], files[t].rows) :
                          db' = [db EXCEPT ![t] = out]
                   /\ attempts' = [attempts EXCEPT ![t] = @ + 1]
                   /\ lpc' = "failed"
                   /\ error' = "DatabaseError"
                   /\ UNCHANGED <<pos, loaded, skipped>>
    /\ UNCHANGED <<staged, files, dbBefore, complete>>

\* Fault variant: the loop body catches the exception of to_sql and goes on
\* with the next table
LoadStep_Continue ==
    /\ lpc = "loading"
    /\ pos <= Len(tables)
    /\ LET t == tables[pos]
       IN  IF ~files[t].exists
           THEN /\ skipped' = skipped \cup {t}
                /\ pos' = pos + 1
                /\ UNCHANGED <<db, lpc, error, loaded, attempts>>
           ELSE \/ /\ db' = [db EXCEPT ![t] = to_sql(db[t], files[t].rows)]
                   /\ loaded' = loaded \cup {t}
                   /\ attempts' = [attempts EXCEPT ![t] = @ + 1]
                   /\ pos' = pos + 1
                   /\ UNCHANGED <<lpc, error, skipped>>
                \/ /\ \E out \in FailedWrite(db[t], files[t].rows) :
                          db' = [db EXCEPT ![t] = out]
                   /\ attempts' = [attempts EXCEPT ![t] = @ + 1]
                   /\ error' = "DatabaseError"
                   /\ pos' = pos + 1
                   /\ UNCHANGED <<lpc, loaded, skipped>>
    /\ UNCHANGED <<staged, files, dbBefore, complete>>

\* load.py main(), one iteration of the loop over tables: skip a missing file
\* with a warning, otherwise load_parquet_to_sql; an exception of to_sql is
\* not caught and ends the run.
LoadStep ==
    /\ lpc = "loading"
    /\ pos <= Len(tables)
    /\ LET t == tables[pos]
       IN  IF ~files[t].exists
           THEN /\ skipped' = skipped \cup {t}
                /\ pos' = pos + 1
                /\ UNCHANGED <<db, lpc, error, loaded, attempts>>
           ELSE \/ /\ db' = [db EXCEPT ![t] = to_sql(db[t], files[t].rows)]
                   /\ loaded' = loaded \cup {t}
                   /\ attempts' = [attempts EXCEPT ![t] = @ + 1]
                   /\ pos' = pos + 1
                   /\ UNCHANGED <<lpc, error, skipped>>
                \/ /\ \E out \in FailedWrite(db[t], files[t].rows) :
                          db' = [db EXCEPT ![t] = out]
                   /\ attempts' = [attempts EXCEPT ![t] = @ + 1]
                   /\ lpc' = "failed"
                   /\ error' = "DatabaseError"
                   /\ UNCHANGED <<pos, loaded, skipped>>
    /\ UNCHANGED <<staged, files, dbBefore, complete>>

\* load.py main(): the loop is over, "All tables loaded" is logged
LoadMainFinish ==
    /\ lpc = "loading"
    /\ pos = Len(tables) + 1
    /\ lpc' = "done"
    /\ complete' = (complete \/ loaded = TableNames)
    /\ UNCHANGED <<staged, files, db, pos, error, dbBefore, loaded, skipped, attempts>>

Next ==
    \/ TransformRun
    \/ RemoveFile
    \/ LoadMainStart
    \/ LoadStep
    \/ LoadMainFinish

Spec == Init /\ [][Next]_vars

\* ------------------------------------------------ claims on the transform
Transformed == \A t \in TableNames : files[t].exists

RowSet(q) == {q[i] : i \in 1..Len(q)}

StagedDates == {normalize(staged[i].InvoiceDate) : i \in 1..Len(staged)}

\* position of the first staged row whose column col holds v
FirstPos(col, v) ==
    CHOOSE i \in 1..Len(staged) : staged[i][col] = v /\ \A j \in 1..(i - 1) : staged[j][col] # v

\* C1: in the date dimension, an earlier invoice_date always has a smaller
\* date_key, whatever the order of the staged rows.
C1_DateKeysChronological ==
    Transformed =>
        \A r1, r2 \in RowSet(files.dim_date.rows) :
            DateLT(r1.invoice_date, r2.invoice_date) => r1.date_key < r2.date_key

\* C2: the date dimension has exactly one row per distinct calendar date and
\* the row of the i-th smallest date has date_key = i.
C2_DateKeysAreRanks ==
    Transformed =>
        LET dim == files.dim_date.rows
        IN  /\ {r.invoice_date : r \in RowSet(dim)} = StagedDates
            /\ Len(dim) = Cardinality(StagedDates)
            /\ \A r \in RowSet(dim) :
                  r.date_key = 1 + Cardinality({d \in StagedDates : DateLT(d, r.invoice_date)})

\* C3: the fact table has exactly one row per staged row, in the staged order;
\* no line item is dropped or duplicated by the joins, guest rows included.
C3_FactOneRowPerStagedRow ==
    Transformed =>
        LET fact == files.fact_orders.rows
        IN  /\ Len(fact) = Len(staged)
            /\ \A i \in 1..Len(fact) :
                  /\ fact[i].InvoiceNo = staged[i].InvoiceNo
                  /\ fact[i].Quantity = staged[i].Quantity
                  /\ fact[i].UnitPrice = staged[i].UnitPrice
                  /\ fact[i].invoice_date = normalize(staged[i].InvoiceDate)

C3_Witness ==
    /\ Transformed
    /\ Len(staged) >= 2
    /\ \E i, j \in 1..Len(staged) : staged[i].CustomerID = NA /\ staged[j].CustomerID # NA
    /\ Len(files.fact_orders.rows) = Len(staged)

\* C4: every fact row's product_key and date_key are non-null and are the key
\* of the dimension row with the source row's StockCode / normalized date; its
\* customer_key is null iff the source CustomerID is null, and otherwise the
\* key of the dim_customers row with that CustomerID.
C4_FactKeysResolve ==
    Transformed =>
        LET fact == files.fact_orders.rows
        IN  /\ Len(fact) = Len(staged)
            /\ \A i \in 1..Len(fact) :
                  /\ fact[i].product_key # NA
                  /\ \E p \in RowSet(files.dim_products.rows) :
                        p.StockCode = staged[i].StockCode /\ p.product_key = fact[i].product_key
                  /\ fact[i].date_key # NA
                  /\ \E d \in RowSet(files.dim_date.rows) :
                        /\ d.invoice_date = normalize(staged[i].InvoiceDate)
                        /\ d.date_key = fact[i].date_key
                  /\ (fact[i].customer_key = NA <=> staged[i].CustomerID = NA)
                  /\ staged[i].CustomerID # NA =>
                        \E c \in RowSet(files.dim_customers.rows) :
                            c.CustomerID = staged[i].CustomerID /\ c.customer_key = fact[i].customer_key

C4_Witness ==
    /\ Transformed
    /\ \E i, j \in 1..Len(staged) :
          /\ staged[i].CustomerID = NA
          /\ staged[j].CustomerID # NA
          /\ staged[j].InvoiceDate[2] # 0
          /\ files.fact_orders.rows[i].customer_key = NA
          /\ files.fact_orders.rows[j].customer_key # NA
          /\ files.fact_orders.rows[j].date_key # NA

\* C5: the customer dimension holds no null CustomerID, no CustomerID twice,
\* and as many rows as there are distinct non-null CustomerIDs in the input.
C5_CustomersDistinctNonNull ==
    Transformed =>
        LET dim == files.dim_customers.rows
        IN  /\ \A i \in 1..Len(dim) : dim[i].CustomerID # NA
            /\ \A i, j \in 1..Len(dim) : dim[i].CustomerID = dim[j].CustomerID => i = j
            /\ Len(dim) = Cardinality({staged[i].CustomerID : i \in 1..Len(staged)} \ {NA})

C5_Witness ==
    /\ Transformed
    /\ \E i, j \in 1..Len(staged) :
          i # j /\ staged[i].CustomerID = NA /\ staged[j].CustomerID # NA
    /\ Len(files.dim_customers.rows) = 1

\* C9: customer and product keys are exactly 1..n in order of first appearance
\* of the natural key (null CustomerIDs dropped), and each dimension row keeps
\* the Country / Description of the first occurrence of its natural key.
C9_KeysByFirstAppearance ==
    Transformed =>
        LET dc == files.dim_customers.rows
            dp == files.dim_products.rows
        IN  /\ \A i \in 1..Len(dc) : dc[i].customer_key = i
            /\ \A i, j \in 1..Len(dc) :
                  i < j => FirstPos("CustomerID", dc[i].CustomerID)
                             < FirstPos("CustomerID", dc[j].CustomerID)
            /\ \A i \in 1..Len(dc) :
                  dc[i].Country = staged[FirstPos("CustomerID", dc[i].CustomerID)].Country
            /\ \A i \in 1..Len(dp) : dp[i].product_key = i
            /\ \A i, j \in 1..Len(dp) :
                  i < j => FirstPos("StockCode", dp[i].StockCode)
                             < FirstPos("StockCode", dp[j].StockCode)
            /\ \A i \in 1..Len(dp) :
                  dp[i].Description = staged[FirstPos("StockCode", dp[i].StockCode)].Description

C9_Witness ==
    /\ Transformed
    /\ Len(staged) >= 2
    /\ staged[1].CustomerID = NA
    /\ staged[2].CustomerID # NA
    /\ staged[1].StockCode = staged[2].StockCode
    /\ staged[1].Description # staged[2].Description
    /\ files.dim_customers.rows[1].customer_key = 1
    /\ files.dim_products.rows[1].Description = staged[1].Description

\* ---------------------------------------------------- claims on the loader
RunEnded == lpc \in {"done", "failed"}

Loaded(t) == [exists |-> TRUE, rows |-> files[t].rows]

\* C6: whatever subset of the four files is absent, a loader run with the
\* database available is never ended by the absence: it finishes, having
\* replaced exactly the tables whose files are present and left the table of
\* each absent file untouched.
C6_AbsentFilesSkipped ==
    /\ error \in {"none", "ConfigNotFound", "DatabaseError"}
    /\ lpc = "loading" =>
          skipped = {tables[i] : i \in {j \in 1..(pos - 1) : ~files[tables[j]].exists}}
    /\ lpc = "done" =>
          \A t \in TableNames :
              IF files[t].exists
              THEN t \in loaded /\ t \notin skipped /\ db[t] = Loaded(t)
              ELSE t \in skipped /\ t \notin loaded /\ db[t] = dbBefore[t]

C6_Witness ==
    /\ lpc = "done"
    /\ Cardinality(skipped) = 1
    /\ Cardinality(loaded) = 3
    /\ \E t \in skipped : dbBefore[t].exists /\ dbBefore[t].rows # <<>> /\ db[t] = dbBefore[t]
    /\ \E t \in loaded : db[t] # dbBefore[t]

\* C7: after any loader run that finishes without error, each of the four
\* tables holds exactly the rows of the current transform output.
C7_AllTablesRebuilt ==
    (lpc = "done" /\ \E t \in TableNames : files[t].exists) =>
        \A t \in TableNames : db[t] = TransformOutput(staged)[t]

\* C7 (amended): after any loader run that finishes without error, each table
\* whose transformed file is present holds exactly the rows of that file, the
\* current transform output, and none of the rows it held before.
C7_PresentTablesRebuilt ==
    lpc = "done" =>
        \A t \in TableNames :
            files[t].exists =>
                /\ files[t] = TransformOutput(staged)[t]
                /\ db[t].exists
                /\ db[t].rows = files[t].rows

C7_Witness ==
    /\ lpc = "done"
    /\ \E t \in TableNames :
          /\ files[t].exists
          /\ dbBefore[t].exists
          /\ dbBefore[t].rows # <<>>
          /\ files[t].rows # <<>>
          /\ dbBefore[t].rows # files[t].rows
          /\ db[t].rows = files[t].rows

\* C8: a database failure while writing the k-th table ends the run at once:
\* that table's load is attempted once, no later table is attempted, the
\* tables written earlier in the run keep their new contents and the tables
\* after k keep what they held before the run.
C8_FailureEndsRun ==
    error = "DatabaseError" =>
        /\ lpc = "failed"
        /\ pos \in 1..Len(tables)
        /\ attempts[tables[pos]] = 1
        /\ \A i \in 1..Len(tables) :
              /\ i > pos => attempts[tables[i]] = 0 /\ db[tables[i]] = dbBefore[tables[i]]
              /\ i < pos =>
                    IF files[tables[i]].exists
                    THEN attempts[tables[i]] = 1 /\ db[tables[i]] = Loaded(tables[i])
                    ELSE attempts[tables[i]] = 0 /\ db[tables[i]] = dbBefore[tables[i]]

C8_Witness ==
    /\ lpc = "failed"
    /\ error = "DatabaseError"
    /\ pos = 2
    /\ db[tables[1]] = Loaded(tables[1])
    /\ db[tables[1]] # dbBefore[tables[1]]
    /\ files[tables[4]].exists
    /\ dbBefore[tables[4]].exists
    /\ db[tables[4]] = dbBefore[tables[4]]
    /\ db[tables[4]] # Loaded(tables[4])

\* every fact row of the database refers to rows of the dimension tables
ReferentialIntegrity ==
    \A f \in RowSet(db.fact_orders.rows) :
        /\ \E p \in RowSet(db.dim_products.rows) : p.product_key = f.product_key
        /\ \E d \in RowSet(db.dim_date.rows) : d.date_key = f.date_key
        /\ \/ f.customer_key = NA
           \/ \E c \in RowSet(db.dim_customers.rows) : c.customer_key = f.customer_key

\* C10: once the database has been loaded by one complete run, it keeps
\* referential integrity after any further transform and loader runs,
\* skipped files and aborted loads included.
C10_IntegrityAfterAnyRun ==
    (complete /\ RunEnded) => ReferentialIntegrity

\* C10 (amended): after a loader run that finishes without error and skips no
\* file, the four files being the output of one transform run, every fact row
\* of the database refers to rows of the dimension tables.
C10_IntegrityAfterCompleteRun ==
    (lpc = "done" /\ skipped = {}) => ReferentialIntegrity

C10_Witness ==
    /\ lpc = "done"
    /\ skipped = {}
    /\ loaded = TableNames
    /\ dbBefore.fact_orders.exists
    /\ dbBefore.fact_orders # db.fact_orders
    /\ dbBefore.dim_customers # db.dim_customers
    /\ \E f \in RowSet(db.fact_orders.rows) : f.customer_key # NA
    /\ ReferentialIntegrity

====
